---- MODULE Spec2Model ----
(***************************************************************************)
(* Model of the FluxLED/MagicHome light entity (src/light.py): the effect  *)
(* table, the state accessors of FluxLight, the intent dispatch of         *)
(* FluxLight._async_turn_on and FluxLight.async_set_custom_effect, run     *)
(* against a Device collaborator whose cached state a refresh may change   *)
(* whenever the entity's coroutine is suspended.                           *)
(***************************************************************************)
EXTENDS Integers, Sequences, FiniteSets, TLC

VARIABLES
    dev,        \* the Device collaborator's cached state (self._device)
    cfg,        \* the custom-effect configuration stored by __init__
    pc,         \* "idle", "await_turn_on", "await_cmd" or "done"
    op,         \* the call in progress or just ended: "none", "turn_on", "set_custom_effect"
    kw,         \* the kwargs of that call (turn_on)
    log,        \* the native commands issued to the Device during that call, in order
    result,     \* "pending", "returned", or the error the call ended with
    startOn,    \* history: is_on as read when the call started
    fault,      \* history: the transport error the Device raised in that call, if any
    callArgs,   \* history: the arguments of that call (set_custom_effect), as an option
    conv,       \* the color-temperature conversions of one constructed entity
    calls       \* the calls of concurrent callers, by caller

vars == <<dev, cfg, pc, op, kw, log, result, startOn, fault, callArgs, conv, calls>>

(***************************************************************************)
(* Arithmetic helpers (Python's max and round on exact quotients).         *)
(***************************************************************************)
Max2(a, b) == IF a >= b THEN a ELSE b

Max3(a, b, c) == Max2(a, Max2(b, c))

\* round(n / d) for n >= 0, d > 0: Python 3 rounds halves to the even neighbour.
RoundDiv(n, d) ==
    LET q == n \div d
        r == n % d
    IN  IF 2 * r < d THEN q
        ELSE IF 2 * r > d THEN q + 1
        ELSE IF q % 2 = 0 THEN q ELSE q + 1

\* math.floor(n / d) for n >= 0, d > 0.
FloorDiv(n, d) == n \div d

(***************************************************************************)
(* Module constants of light.py.                                           *)
(***************************************************************************)
COLOR_MODE_RGB == "rgb"
COLOR_MODE_RGBW == "rgbw"
COLOR_MODE_RGBWW == "rgbww"
COLOR_MODE_COLOR_TEMP == "color_temp"
COLOR_MODE_BRIGHTNESS == "brightness"
COLOR_MODE_ONOFF == "onoff"

FLUX_COLOR_MODE_RGB == "RGB"
FLUX_COLOR_MODE_RGBW == "RGBW"
FLUX_COLOR_MODE_RGBWW == "RGBWW"
FLUX_COLOR_MODE_CCT == "CCT"
FLUX_COLOR_MODE_DIM == "DIM"

\* The dict literal FLUX_COLOR_MODE_TO_HASS, as its items in source order.
FLUX_COLOR_MODE_TO_HASS_ITEMS ==
    << <<FLUX_COLOR_MODE_RGB, COLOR_MODE_RGB>>,
       <<FLUX_COLOR_MODE_RGBW, COLOR_MODE_RGBW>>,
       <<FLUX_COLOR_MODE_RGBWW, COLOR_MODE_RGBWW>>,
       <<FLUX_COLOR_MODE_CCT, COLOR_MODE_COLOR_TEMP>>,
       <<FLUX_COLOR_MODE_DIM, COLOR_MODE_BRIGHTNESS>> >>

EFFECT_COLORLOOP == "colorloop"
EFFECT_RANDOM == "random"
EFFECT_CUSTOM == "custom"

\* EFFECT_MAP with a mistyped code: colorjump given white_strobe's 0x37.
EFFECT_MAP_ITEMS_DuplicateCode ==
    << <<"colorloop", 37>>, <<"red_fade", 38>>, <<"green_fade", 39>>,
       <<"blue_fade", 40>>, <<"yellow_fade", 41>>, <<"cyan_fade", 42>>,
       <<"purple_fade", 43>>, <<"white_fade", 44>>, <<"rg_cross_fade", 45>>,
       <<"rb_cross_fade", 46>>, <<"gb_cross_fade", 47>>, <<"colorstrobe", 48>>,
       <<"red_strobe", 49>>, <<"green_strobe", 50>>, <<"blue_strobe", 51>>,
       <<"yellow_strobe", 52>>, <<"cyan_strobe", 53>>, <<"purple_strobe", 54>>,
       <<"white_strobe", 55>>, <<"colorjump", 55>> >>

\* The dict literal EFFECT_MAP, as its items <<name, code>> in source order.
EFFECT_MAP_ITEMS ==
    << <<EFFECT_COLORLOOP, 37>>,
       <<"red_fade", 38>>,
       <<"green_fade", 39>>,
       <<"blue_fade", 40>>,
       <<"yellow_fade", 41>>,
       <<"cyan_fade", 42>>,
       <<"purple_fade", 43>>,
       <<"white_fade", 44>>,
       <<"rg_cross_fade", 45>>,
       <<"rb_cross_fade", 46>>,
       <<"gb_cross_fade", 47>>,
       <<"colorstrobe", 48>>,
       <<"red_strobe", 49>>,
       <<"green_strobe", 50>>,
       <<"blue_strobe", 51>>,
       <<"yellow_strobe", 52>>,
       <<"cyan_strobe", 53>>,
       <<"purple_strobe", 54>>,
       <<"white_strobe", 55>>,
       <<"colorjump", 56>> >>

\* A Python dict built from key/value items: a later item overwrites an
\* earlier one with the same key.
LastIndexOf(items, pos, key) ==
    CHOOSE i \in 1..Len(items) :
        /\ items[i][pos] = key
        /\ \A j \in (i + 1)..Len(items) : items[j][pos] # key

DictOf(items) ==
    [k \in {items[i][1] : i \in 1..Len(items)} |->
        items[LastIndexOf(items, 1, k)][2]]

\* {v: k for k, v in d.items()} over the items of d in insertion order.
InverseDictOf(items) ==
    [v \in {items[i][2] : i \in 1..Len(items)} |->
        items[LastIndexOf(items, 2, v)][1]]

\* The items of the dict built from `items`: one per key, holding its final value.
DictItems(items) ==
    LET d == DictOf(items)
        firsts == {i \in 1..Len(items) :
                      \A j \in 1..(i - 1) : items[j][1] # items[i][1]}
        F[i \in 0..Len(items)] ==
            IF i = 0 THEN <<>>
            ELSE IF i \in firsts
                 THEN Append(F[i - 1], <<items[i][1], d[items[i][1]]>>)
                 ELSE F[i - 1]
    IN  F[Len(items)]

FLUX_COLOR_MODE_TO_HASS == DictOf(FLUX_COLOR_MODE_TO_HASS_ITEMS)

EFFECT_MAP == DictOf(EFFECT_MAP_ITEMS)

EFFECT_ID_NAME == InverseDictOf(DictItems(EFFECT_MAP_ITEMS))

EFFECT_CUSTOM_CODE == 96

DEFAULT_EFFECT_SPEED == 50

TRANSITION_GRADUAL == "gradual"
TRANSITION_JUMP == "jump"
TRANSITION_STROBE == "strobe"

(***************************************************************************)
(* Optional arguments: <<>> is Python's None, <<v>> a supplied value.      *)
(***************************************************************************)
NoneVal == <<>>

Some(v) == <<v>>

(***************************************************************************)
(* Library conversions the entity calls (homeassistant.util.color and      *)
(* flux_led.utils), computed in exact integer arithmetic.                  *)
(***************************************************************************)
\* homeassistant.util.color.color_temperature_mired_to_kelvin:
\* math.floor(1000000 / mired_temperature).
color_temperature_mired_to_kelvin(mired) == FloorDiv(1000000, mired)

\* homeassistant.util.color.color_temperature_kelvin_to_mired:
\* math.floor(1000000 / kelvin_temperature).
color_temperature_kelvin_to_mired(kelvin) == FloorDiv(1000000, kelvin)

\* flux_led.const MIN_TEMP and MAX_TEMP, the kelvin range of the white pair.
MIN_TEMP == 2700

MAX_TEMP == 6500

\* flux_led.utils.color_temp_to_white_levels(temperature, brightness):
\*   brightness = round(brightness / 255, 2)
\*   warm = ((MAX_TEMP - temperature) / (MAX_TEMP - MIN_TEMP)) * brightness
\*   cold = brightness - warm
\*   return round(255 * cold), round(255 * warm)
\* and a ValueError for a temperature outside [MIN_TEMP, MAX_TEMP] or a
\* brightness outside [0, 255]. The result is <<cold, warm>>; <<>> stands for
\* the ValueError.
color_temp_to_white_levels(temperature, brightness) ==
    IF ~(MIN_TEMP <= temperature /\ temperature <= MAX_TEMP) THEN <<>>
    ELSE IF ~(0 <= brightness /\ brightness <= 255) THEN <<>>
    ELSE LET pct  == RoundDiv(100 * brightness, 255)
             span == MAX_TEMP - MIN_TEMP
             warmN == (MAX_TEMP - temperature) * pct
             coldN == (temperature - MIN_TEMP) * pct
         IN  << RoundDiv(255 * coldN, 100 * span),
                RoundDiv(255 * warmN, 100 * span) >>

\* flux_led.utils.rgbcw_to_rgbwc: (r, g, b, c, w) -> (r, g, b, w, c).
rgbcw_to_rgbwc(rgbcw) == <<rgbcw[1], rgbcw[2], rgbcw[3], rgbcw[5], rgbcw[4]>>

\* flux_led.utils.rgbwc_to_rgbcw: (r, g, b, w, c) -> (r, g, b, c, w).
rgbwc_to_rgbcw(rgbwc) == <<rgbwc[1], rgbwc[2], rgbwc[3], rgbwc[5], rgbwc[4]>>

\* One channel moved from the current overall brightness to the new one, as
\* flux_led.utils scales it: down in proportion, up towards 255.
AdjustLevel(level, current, new) ==
    IF new < current
    THEN RoundDiv(level * new, current)
    ELSE RoundDiv((255 - level) * (new - current) + level * (255 - current),
                  255 - current)

\* colorsys.hsv_to_rgb(h, s, v') * 255 rounded, for the hue and saturation of
\* rgb and the value v' = value / 255: the color rescaled so that its largest
\* channel is `value`; black has no hue and comes back grey.
RescaleColor(rgb, value) ==
    LET m == Max3(rgb[1], rgb[2], rgb[3])
    IN  IF m = 0 THEN <<value, value, value>>
        ELSE << RoundDiv(rgb[1] * value, m),
                RoundDiv(rgb[2] * value, m),
                RoundDiv(rgb[3] * value, m) >>

\* flux_led.utils.rgbw_brightness(rgbw_data, brightness).
rgbw_brightness(rgbw, brightness) ==
    LET rgb     == <<rgbw[1], rgbw[2], rgbw[3]>>
        color   == Max3(rgbw[1], rgbw[2], rgbw[3])
        ww      == rgbw[4]
        current == RoundDiv(color + ww, 2)
    IN  IF brightness = 0 \/ brightness = current THEN rgbw
        ELSE RescaleColor(rgb, AdjustLevel(color, current, brightness))
             \o << AdjustLevel(ww, current, brightness) >>

\* flux_led.utils.rgbww_brightness(rgbww_data, brightness), native order
\* (r, g, b, warm, cold).
rgbww_brightness(rgbww, brightness) ==
    LET rgb     == <<rgbww[1], rgbww[2], rgbww[3]>>
        color   == Max3(rgbww[1], rgbww[2], rgbww[3])
        ww      == rgbww[4]
        cw      == rgbww[5]
        current == RoundDiv(color + ww + cw, 3)
    IN  IF brightness = 0 \/ brightness = current THEN rgbww
        ELSE RescaleColor(rgb, AdjustLevel(color, current, brightness))
             \o << AdjustLevel(ww, current, brightness),
                   AdjustLevel(cw, current, brightness) >>

\* flux_led.utils.rgbcw_brightness(rgbcw_data, brightness), external order
\* (r, g, b, cold, warm).
rgbcw_brightness(rgbcw, brightness) ==
    rgbwc_to_rgbcw(rgbww_brightness(rgbcw_to_rgbwc(rgbcw), brightness))

\* color_hs_to_RGB(*color_RGB_to_hs(r, g, b)): the color at full value, each
\* channel truncated by int(); black has saturation 0 and comes back white.
color_hs_roundtrip(rgb) ==
    LET m == Max3(rgb[1], rgb[2], rgb[3])
    IN  IF m = 0 THEN <<255, 255, 255>>
        ELSE << (rgb[1] * 255) \div m,
                (rgb[2] * 255) \div m,
                (rgb[3] * 255) \div m >>

(***************************************************************************)
(* The Device collaborator's cached state, as the entity reads it.         *)
(*   is_on, color_mode, brightness, color_temp, preset_pattern_num are the *)
(*   device properties of those names; levels is the raw channel state     *)
(*   (r, g, b, warm, cold) behind its rgb, rgbw, rgbww and rgbcw           *)
(*   properties; white_brightness is getWhiteTemperature()[1].             *)
(***************************************************************************)
NativeModes ==
    { FLUX_COLOR_MODE_RGB, FLUX_COLOR_MODE_RGBW, FLUX_COLOR_MODE_RGBWW,
      FLUX_COLOR_MODE_CCT, FLUX_COLOR_MODE_DIM, "ADDRESSABLE" }

\* What one refresh may report for the channels and the values derived from them.
DeviceReports ==
    { [ levels |-> <<255, 128, 0, 60, 20>>, brightness |-> 204,
        white_brightness |-> 77, color_temp |-> 3200,
        preset_pattern_num |-> 37 ],
      [ levels |-> <<0, 0, 0, 0, 0>>, brightness |-> 0,
        white_brightness |-> 0, color_temp |-> 6500,
        preset_pattern_num |-> 96 ],
      [ levels |-> <<0, 64, 128, 100, 50>>, brightness |-> 51,
        white_brightness |-> 150, color_temp |-> 4000,
        preset_pattern_num |-> 97 ] }

DeviceState(on, mode, rep) ==
    [ is_on |-> on, color_mode |-> mode, levels |-> rep.levels,
      brightness |-> rep.brightness, white_brightness |-> rep.white_brightness,
      color_temp |-> rep.color_temp,
      preset_pattern_num |-> rep.preset_pattern_num ]

DeviceStates ==
    { DeviceState(on, mode, rep) :
        on \in BOOLEAN, mode \in NativeModes, rep \in DeviceReports }

\* self._device.rgb, .rgbw, .rgbww (native order) and .rgbcw (external order).
device_rgb(d) == <<d.levels[1], d.levels[2], d.levels[3]>>

device_rgbw(d) == <<d.levels[1], d.levels[2], d.levels[3], d.levels[4]>>

device_rgbww(d) == d.levels

device_rgbcw(d) == rgbwc_to_rgbcw(d.levels)

(***************************************************************************)
(* The custom-effect configuration handed to FluxLight.__init__.           *)
(***************************************************************************)
\* Longest custom color list the model configures (the schema allows 16).
MaxColors == 1

Palette == << <<255, 0, 0>>, <<0, 255, 0>>, <<0, 0, 255>> >>

ColorList(n) == [i \in 1..n |-> Palette[((i - 1) % Len(Palette)) + 1]]

ColorLists == { ColorList(n) : n \in 0..MaxColors }

Transitions == { TRANSITION_GRADUAL, TRANSITION_JUMP, TRANSITION_STROBE }

Configs ==
    { [ custom_effect_colors |-> ColorList(n),
        custom_effect_speed_pct |-> 20 + 10 * n,
        custom_effect_transition |-> IF n % 2 = 0 THEN TRANSITION_JUMP
                                     ELSE TRANSITION_STROBE ] :
        n \in 0..MaxColors }

(***************************************************************************)
(* The kwargs of a turn_on call: keys is the set of attributes present;    *)
(* the field of an absent attribute holds a filler that is never read.     *)
(***************************************************************************)
ATTR_BRIGHTNESS == "brightness"
ATTR_COLOR_TEMP == "color_temp"
ATTR_EFFECT == "effect"
ATTR_RGB_COLOR == "rgb_color"
ATTR_RGBW_COLOR == "rgbw_color"
ATTR_RGBWW_COLOR == "rgbww_color"
ATTR_TRANSITION == "transition"

DispatchAttrs ==
    { ATTR_COLOR_TEMP, ATTR_RGB_COLOR, ATTR_RGBW_COLOR, ATTR_RGBWW_COLOR,
      ATTR_EFFECT, ATTR_BRIGHTNESS }

EffectNames ==
    { EFFECT_RANDOM, EFFECT_CUSTOM, EFFECT_COLORLOOP, "colorjump",
      "nonexistent_effect" }

BrightnessValues == { 128, 255 }

MiredValues == { 250 }

Kwargs(keys, effect, brightness, mired) ==
    [ keys        |-> keys,
      color_temp  |-> IF ATTR_COLOR_TEMP \in keys THEN mired ELSE 0,
      rgb_color   |-> <<255, 0, 0>>,
      rgbw_color  |-> <<0, 255, 0, 40>>,
      rgbww_color |-> <<0, 64, 128, 50, 100>>,
      effect      |-> IF ATTR_EFFECT \in keys THEN effect ELSE "",
      brightness  |-> IF ATTR_BRIGHTNESS \in keys THEN brightness ELSE 0 ]

NoKwargs == Kwargs({}, "", 0, 0)

\* Every combination of the six attributes the dispatch reads, and a call
\* that carries only a transition.
KwargsValues ==
    { Kwargs(keys, e, b, m) :
        keys \in SUBSET DispatchAttrs, e \in EffectNames,
        b \in BrightnessValues, m \in MiredValues }
    \cup { Kwargs({ATTR_TRANSITION}, "", 0, 0) }

\* random.randint(0, 255) three times: the triples the model draws.
RandomColors == { <<0, 0, 0>>, <<17, 200, 99>> }

\* The transport errors a native command may raise.
TransportErrors == { "ConnectionError", "TimeoutError" }

(***************************************************************************)
(* Native commands, as the Device collaborator receives them. An argument  *)
(* the call does not pass is NoneVal (the parameter's default).            *)
(***************************************************************************)
NoArgs ==
    [ r |-> NoneVal, g |-> NoneVal, b |-> NoneVal, w |-> NoneVal,
      w2 |-> NoneVal, brightness |-> NoneVal, kelvin |-> NoneVal,
      pattern |-> NoneVal, speed |-> NoneVal, colors |-> NoneVal,
      transition |-> NoneVal ]

Command(name, args) == [name |-> name, args |-> args]

\* self._device.async_turn_on()
async_turn_on == Command("turn_on", NoArgs)

\* self._device.async_set_white_temp(kelvin, brightness)
async_set_white_temp(kelvin, brightness) ==
    Command("set_white_temp",
            [NoArgs EXCEPT !.kelvin = Some(kelvin), !.brightness = Some(brightness)])

\* self._device.async_set_levels(r, g, b, w, w2, brightness=...), each an option.
async_set_levels(r, g, b, w, w2, brightness) ==
    Command("set_levels",
            [NoArgs EXCEPT !.r = r, !.g = g, !.b = b, !.w = w, !.w2 = w2,
                           !.brightness = brightness])

\* self._device.async_set_levels(*values): positional r, g, b, w, w2.
async_set_levels_positional(values) ==
    LET arg(i) == IF i <= Len(values) THEN Some(values[i]) ELSE NoneVal
    IN  async_set_levels(arg(1), arg(2), arg(3), arg(4), arg(5), NoneVal)

\* self._device.async_set_preset_pattern(pattern, speed)
async_set_preset_pattern(pattern, speed) ==
    Command("set_preset_pattern",
            [NoArgs EXCEPT !.pattern = Some(pattern), !.speed = Some(speed)])

\* self._device.async_set_custom_pattern(colors, speed_pct, transition)
async_set_custom_pattern(colors, speed_pct, transition) ==
    Command("set_custom_pattern",
            [NoArgs EXCEPT !.colors = Some(colors), !.speed = Some(speed_pct),
                           !.transition = Some(transition)])

(***************************************************************************)
(* FluxLight's state accessors.                                            *)
(***************************************************************************)
is_on(d) == d.is_on

\* The accessor handing out the device's kelvin value unconverted.
color_temp_Unconverted(d) == d.color_temp

brightness(d) == d.brightness

color_temp(d) == color_temperature_kelvin_to_mired(d.color_temp)

rgb_color(d) == color_hs_roundtrip(device_rgb(d))

rgbw_color(d) == device_rgbw(d)

rgbww_color(d) == device_rgbcw(d)

rgbwc_color(d) == device_rgbww(d)

\* color_mode with the wrong default for an unmapped native mode.
color_mode_DefaultBrightness(d) ==
    IF d.color_mode \in DOMAIN FLUX_COLOR_MODE_TO_HASS
    THEN FLUX_COLOR_MODE_TO_HASS[d.color_mode]
    ELSE COLOR_MODE_BRIGHTNESS

color_mode(d) ==
    IF d.color_mode \in DOMAIN FLUX_COLOR_MODE_TO_HASS
    THEN FLUX_COLOR_MODE_TO_HASS[d.color_mode]
    ELSE COLOR_MODE_ONOFF

\* The accessor without the test for the custom-pattern code.
effect_TableOnly(d) ==
    IF d.preset_pattern_num \in DOMAIN EFFECT_ID_NAME
    THEN Some(EFFECT_ID_NAME[d.preset_pattern_num])
    ELSE NoneVal

\* The effect accessor: an effect name, or NoneVal.
effect(d) ==
    IF d.preset_pattern_num = EFFECT_CUSTOM_CODE THEN Some(EFFECT_CUSTOM)
    ELSE IF d.preset_pattern_num \in DOMAIN EFFECT_ID_NAME
         THEN Some(EFFECT_ID_NAME[d.preset_pattern_num])
         ELSE NoneVal

(***************************************************************************)
(* FluxLight._async_turn_on after the turn-on prefix: what the code does   *)
(* between one suspension and the next is one outcome, the command it      *)
(* issues (at most one) and the error it raises ("" for none).             *)
(***************************************************************************)
Issue(cmd) == [cmds |-> <<cmd>>, error |-> ""]

Nothing == [cmds |-> <<>>, error |-> ""]

Raise(err) == [cmds |-> <<>>, error |-> err]

UnknownEffectError == "ValueError: Unknown effect"

UnsupportedModeError == "ValueError: Unsupported color mode"

LibraryValueError == "ValueError: color_temp_to_white_levels"

\* A brightness that defaults to full instead of the device's own.
RequestedBrightness_FullWhenAbsent(d, k) ==
    IF ATTR_BRIGHTNESS \in k.keys THEN k.brightness ELSE 255

\* if (brightness := kwargs.get(ATTR_BRIGHTNESS)) is None: brightness = self.brightness
RequestedBrightness(d, k) ==
    IF ATTR_BRIGHTNESS \in k.keys THEN k.brightness ELSE brightness(d)

\* The white-pair brightness taken from the overall brightness instead.
WhiteBrightness_Overall(d, k) == RequestedBrightness(d, k)

\* kwargs.get(ATTR_BRIGHTNESS, self._device.getWhiteTemperature()[1])
WhiteBrightness(d, k) ==
    IF ATTR_BRIGHTNESS \in k.keys THEN k.brightness ELSE d.white_brightness

\* The ATTR_COLOR_TEMP branch.
ColorTempRule(d, k) ==
    LET color_temp_kelvin == color_temperature_mired_to_kelvin(k.color_temp)
    IN  IF color_mode(d) # COLOR_MODE_RGBWW
        THEN Issue(async_set_white_temp(color_temp_kelvin, RequestedBrightness(d, k)))
        ELSE LET levels == color_temp_to_white_levels(color_temp_kelvin,
                                                      WhiteBrightness(d, k))
             IN  IF levels = <<>> THEN Raise(LibraryValueError)
                 ELSE Issue(async_set_levels(Some(0), Some(0), Some(0),
                                             Some(levels[2]), Some(levels[1]),
                                             NoneVal))

\* The ATTR_RGB_COLOR branch.
RgbRule(d, k) ==
    Issue(async_set_levels(Some(k.rgb_color[1]), Some(k.rgb_color[2]),
                           Some(k.rgb_color[3]), NoneVal, NoneVal,
                           Some(RequestedBrightness(d, k))))

\* The RGBW branch scaling to the device's brightness when none is supplied.
RgbwRule_AlwaysScaled(d, k) ==
    Issue(async_set_levels_positional(
              rgbw_brightness(k.rgbw_color, RequestedBrightness(d, k))))

\* The ATTR_RGBW_COLOR branch.
RgbwRule(d, k) ==
    LET rgbw == IF ATTR_BRIGHTNESS \in k.keys
                THEN rgbw_brightness(k.rgbw_color, RequestedBrightness(d, k))
                ELSE k.rgbw_color
    IN  Issue(async_set_levels_positional(rgbw))

\* The ATTR_RGBWW_COLOR branch.
RgbwwRule(d, k) ==
    LET rgbcw == IF ATTR_BRIGHTNESS \in k.keys
                 THEN rgbcw_brightness(k.rgbww_color, RequestedBrightness(d, k))
                 ELSE k.rgbww_color
    IN  Issue(async_set_levels_positional(rgbcw_to_rgbwc(rgbcw)))

\* EffectRule without the final raise: an unknown effect is ignored.
EffectRule_IgnoresUnknown(c, k, rnd) ==
    IF k.effect = EFFECT_RANDOM
    THEN Issue(async_set_levels_positional(rnd))
    ELSE IF k.effect = EFFECT_CUSTOM
    THEN IF c.custom_effect_colors # <<>>
         THEN Issue(async_set_custom_pattern(c.custom_effect_colors,
                                             c.custom_effect_speed_pct,
                                             c.custom_effect_transition))
         ELSE Nothing
    ELSE IF k.effect \in DOMAIN EFFECT_MAP
    THEN Issue(async_set_preset_pattern(EFFECT_MAP[k.effect], DEFAULT_EFFECT_SPEED))
    ELSE Nothing

\* EffectRule without the test of self._custom_effect_colors.
EffectRule_CustomUnchecked(c, k, rnd) ==
    IF k.effect = EFFECT_RANDOM
    THEN Issue(async_set_levels_positional(rnd))
    ELSE IF k.effect = EFFECT_CUSTOM
    THEN Issue(async_set_custom_pattern(c.custom_effect_colors,
                                        c.custom_effect_speed_pct,
                                        c.custom_effect_transition))
    ELSE IF k.effect \in DOMAIN EFFECT_MAP
    THEN Issue(async_set_preset_pattern(EFFECT_MAP[k.effect], DEFAULT_EFFECT_SPEED))
    ELSE Raise(UnknownEffectError)

\* The ATTR_EFFECT branch; rnd is what the three random.randint calls return.
EffectRule(c, k, rnd) ==
    IF k.effect = EFFECT_RANDOM
    THEN Issue(async_set_levels_positional(rnd))
    ELSE IF k.effect = EFFECT_CUSTOM
    THEN IF c.custom_effect_colors # <<>>
         THEN Issue(async_set_custom_pattern(c.custom_effect_colors,
                                             c.custom_effect_speed_pct,
                                             c.custom_effect_transition))
         ELSE Nothing
    ELSE IF k.effect \in DOMAIN EFFECT_MAP
    THEN Issue(async_set_preset_pattern(EFFECT_MAP[k.effect], DEFAULT_EFFECT_SPEED))
    ELSE Raise(UnknownEffectError)

\* BrightnessRule reading the external-order rgbww_color in RGBWW mode.
BrightnessRule_ExternalOrder(d, k) ==
    IF color_mode(d) = COLOR_MODE_COLOR_TEMP
    THEN Issue(async_set_white_temp(d.color_temp, RequestedBrightness(d, k)))
    ELSE IF color_mode(d) = COLOR_MODE_RGB
    THEN Issue(async_set_levels(Some(rgb_color(d)[1]), Some(rgb_color(d)[2]),
                                Some(rgb_color(d)[3]), NoneVal, NoneVal,
                                Some(RequestedBrightness(d, k))))
    ELSE IF color_mode(d) = COLOR_MODE_RGBW
    THEN Issue(async_set_levels_positional(
                   rgbw_brightness(rgbw_color(d), RequestedBrightness(d, k))))
    ELSE IF color_mode(d) = COLOR_MODE_RGBWW
    THEN Issue(async_set_levels_positional(
                   rgbww_brightness(rgbww_color(d), RequestedBrightness(d, k))))
    ELSE IF color_mode(d) = COLOR_MODE_BRIGHTNESS
    THEN Issue(async_set_levels(NoneVal, NoneVal, NoneVal,
                                Some(RequestedBrightness(d, k)), NoneVal, NoneVal))
    ELSE Raise(UnsupportedModeError)

\* The brightness adjustment in the current color mode.
BrightnessRule(d, k) ==
    IF color_mode(d) = COLOR_MODE_COLOR_TEMP
    THEN Issue(async_set_white_temp(d.color_temp, RequestedBrightness(d, k)))
    ELSE IF color_mode(d) = COLOR_MODE_RGB
    THEN Issue(async_set_levels(Some(rgb_color(d)[1]), Some(rgb_color(d)[2]),
                                Some(rgb_color(d)[3]), NoneVal, NoneVal,
                                Some(RequestedBrightness(d, k))))
    ELSE IF color_mode(d) = COLOR_MODE_RGBW
    THEN Issue(async_set_levels_positional(
                   rgbw_brightness(rgbw_color(d), RequestedBrightness(d, k))))
    ELSE IF color_mode(d) = COLOR_MODE_RGBWW
    THEN Issue(async_set_levels_positional(
                   rgbww_brightness(rgbwc_color(d), RequestedBrightness(d, k))))
    ELSE IF color_mode(d) = COLOR_MODE_BRIGHTNESS
    THEN Issue(async_set_levels(NoneVal, NoneVal, NoneVal,
                                Some(RequestedBrightness(d, k)), NoneVal, NoneVal))
    ELSE Raise(UnsupportedModeError)

\* Dispatch with the rgb test ahead of the color_temp test.
Dispatch_RgbFirst(d, c, k, rnd) ==
    IF ATTR_RGB_COLOR \in k.keys THEN RgbRule(d, k)
    ELSE IF ATTR_COLOR_TEMP \in k.keys THEN ColorTempRule(d, k)
    ELSE IF ATTR_RGBW_COLOR \in k.keys THEN RgbwRule(d, k)
    ELSE IF ATTR_RGBWW_COLOR \in k.keys THEN RgbwwRule(d, k)
    ELSE IF ATTR_EFFECT \in k.keys THEN EffectRule(c, k, rnd)
    ELSE BrightnessRule(d, k)

\* Dispatch without the return that ends the rgb branch: the code goes on
\* to the tests that follow it.
Dispatch_MissingReturn(d, c, k, rnd) ==
    LET rest == IF ATTR_RGBW_COLOR \in k.keys THEN RgbwRule(d, k)
                ELSE IF ATTR_RGBWW_COLOR \in k.keys THEN RgbwwRule(d, k)
                ELSE IF ATTR_EFFECT \in k.keys THEN EffectRule(c, k, rnd)
                ELSE BrightnessRule(d, k)
    IN  IF ATTR_COLOR_TEMP \in k.keys THEN ColorTempRule(d, k)
        ELSE IF ATTR_RGB_COLOR \in k.keys
        THEN [cmds |-> RgbRule(d, k).cmds \o rest.cmds, error |-> rest.error]
        ELSE rest

\* The chain of `if ATTR_... in kwargs` tests: the first that matches decides.
Dispatch(d, c, k, rnd) ==
    IF ATTR_COLOR_TEMP \in k.keys THEN ColorTempRule(d, k)
    ELSE IF ATTR_RGB_COLOR \in k.keys THEN RgbRule(d, k)
    ELSE IF ATTR_RGBW_COLOR \in k.keys THEN RgbwRule(d, k)
    ELSE IF ATTR_RGBWW_COLOR \in k.keys THEN RgbwwRule(d, k)
    ELSE IF ATTR_EFFECT \in k.keys THEN EffectRule(c, k, rnd)
    ELSE BrightnessRule(d, k)

\* A call that turns the device on whatever it reports.
NeedsTurnOn_Always(d) == TRUE

\* if not self.is_on: the native turn-on is awaited before anything else.
NeedsTurnOn(d) == ~is_on(d)

\* The turn-on prefix without its early return.
ReturnsAfterTurnOn_Never(k) == FALSE

\* if not kwargs: return (after the turn-on of a device that was off).
ReturnsAfterTurnOn(k) == k.keys = {}

\* A handler that catches the error of an awaited command and returns.
OnCommandError_Swallowed(err, issued) == [result |-> "returned", log |-> issued]

\* An awaited command that raises: the handler has no try/except, so the
\* error leaves the call as it is and nothing more is issued.
OnCommandError(err, issued) == [result |-> err, log |-> issued]

(***************************************************************************)
(* The state machine. A call runs from "idle" to "done"; it is suspended   *)
(* only while a native command is awaited ("await_turn_on", "await_cmd"),  *)
(* and Return hands its result to the caller.                              *)
(***************************************************************************)
\* No conversion is followed and no concurrent caller runs.
NoConversion == [phase |-> "none"]

NoCalls == <<>>

Init ==
    /\ dev \in DeviceStates
    /\ cfg \in Configs
    /\ pc = "idle"
    /\ op = "none"
    /\ kw = NoKwargs
    /\ log = <<>>
    /\ result = "none"
    /\ startOn = TRUE
    /\ fault = ""
    /\ callArgs = NoneVal
    /\ conv = NoConversion
    /\ calls = NoCalls

\* The code from one suspension to the next ends in `out`, after `issued`.
Proceed(out, issued) ==
    /\ log' = issued \o out.cmds
    /\ pc' = IF out.cmds # <<>> THEN "await_cmd" ELSE "done"
    /\ result' = IF out.cmds # <<>> THEN "pending"
                 ELSE IF out.error # "" THEN out.error
                 ELSE "returned"

\* turn_on(**k) is called: up to the first awaited command.
TurnOnCall(k, rnd) ==
    /\ pc = "idle"
    /\ op' = "turn_on"
    /\ kw' = k
    /\ startOn' = is_on(dev)
    /\ fault' = ""
    /\ IF NeedsTurnOn(dev)
       THEN /\ log' = <<async_turn_on>>
            /\ pc' = "await_turn_on"
            /\ result' = "pending"
       ELSE Proceed(Dispatch(dev, cfg, k, rnd), <<>>)
    /\ UNCHANGED <<dev, cfg, callArgs, conv, calls>>

\* The awaited native turn-on returns: the call goes on with the device
\* state as it is now.
TurnOnConfirmed(rnd) ==
    /\ pc = "await_turn_on"
    /\ IF ReturnsAfterTurnOn(kw)
       THEN Proceed(Nothing, log)
       ELSE Proceed(Dispatch(dev, cfg, kw, rnd), log)
    /\ UNCHANGED <<dev, cfg, op, kw, startOn, fault, callArgs, conv, calls>>

\* The awaited dispatch command returns, and with it the call.
CommandConfirmed ==
    /\ pc = "await_cmd"
    /\ pc' = "done"
    /\ result' = "returned"
    /\ UNCHANGED <<dev, cfg, op, kw, log, startOn, fault, callArgs, conv, calls>>

\* The awaited native command raises a transport error.
CommandFailed(err) ==
    /\ pc \in {"await_turn_on", "await_cmd"}
    /\ pc' = "done"
    /\ fault' = err
    /\ result' = OnCommandError(err, log).result
    /\ log' = OnCommandError(err, log).log
    /\ UNCHANGED <<dev, cfg, op, kw, startOn, callArgs, conv, calls>>

\* A handler that keeps the arguments as the new stored configuration.
StoredConfig_Remembered(c, colors, speed_pct, transition) ==
    [ custom_effect_colors     |-> colors,
      custom_effect_speed_pct  |-> speed_pct,
      custom_effect_transition |-> transition ]

\* self._custom_effect_colors, _speed_pct and _transition after
\* async_set_custom_effect: the handler assigns to none of them.
StoredConfig(c, colors, speed_pct, transition) == c

\* The custom pattern sent with the speed stored at construction.
CustomEffectCommands_StoredSpeed(c, colors, speed_pct, transition) ==
    <<async_set_custom_pattern(colors, c.custom_effect_speed_pct, transition)>>

\* The body of async_set_custom_effect: the commands it issues.
CustomEffectCommands(c, colors, speed_pct, transition) ==
    <<async_set_custom_pattern(colors, speed_pct, transition)>>

\* set_custom_effect(colors, speed_pct, transition) is called.
SetCustomEffectCall(colors, speed_pct, transition) ==
    /\ pc = "idle"
    /\ op' = "set_custom_effect"
    /\ kw' = NoKwargs
    /\ startOn' = is_on(dev)
    /\ fault' = ""
    /\ log' = CustomEffectCommands(cfg, colors, speed_pct, transition)
    /\ pc' = "await_cmd"
    /\ result' = "pending"
    /\ callArgs' = Some([colors |-> colors, speed_pct |-> speed_pct,
                         transition |-> transition])
    /\ cfg' = StoredConfig(cfg, colors, speed_pct, transition)
    /\ UNCHANGED <<dev, conv, calls>>

\* The caller has the result (or the error); the entity is idle again.
Return ==
    /\ pc = "done"
    /\ pc' = "idle"
    /\ op' = "none"
    /\ kw' = NoKwargs
    /\ log' = <<>>
    /\ result' = "none"
    /\ startOn' = TRUE
    /\ fault' = ""
    /\ callArgs' = NoneVal
    /\ UNCHANGED <<dev, cfg, conv, calls>>

\* The coordinator refreshes the Device's cached state while no entity code
\* runs: between calls and while a call awaits a command.
Refresh(d) ==
    /\ pc \in {"idle", "await_turn_on", "await_cmd"}
    /\ d # dev
    /\ dev' = d
    /\ UNCHANGED <<cfg, pc, op, kw, log, result, startOn, fault, callArgs, conv, calls>>

Next ==
    \/ \E k \in KwargsValues, rnd \in RandomColors : TurnOnCall(k, rnd)
    \/ \E rnd \in RandomColors : TurnOnConfirmed(rnd)
    \/ CommandConfirmed
    \/ \E err \in TransportErrors : CommandFailed(err)
    \/ \E colors \in ColorLists, speed_pct \in {0, 100},
          transition \in {TRANSITION_GRADUAL, TRANSITION_JUMP} :
              SetCustomEffectCall(colors, speed_pct, transition)
    \/ Return
    \/ \E d \in DeviceStates : Refresh(d)

Spec == Init /\ [][Next]_vars

(***************************************************************************)
(* The color-temperature conversions on their own. An entity is            *)
(* constructed for a device kelvin range (FluxLight.__init__ computes the  *)
(* mired limits it advertises); a color-temperature intent for a mired     *)
(* value sends the device a kelvin value; the color_temp accessor reports  *)
(* the device's kelvin value in mired, which a caller may send back.       *)
(***************************************************************************)
\* The kelvin values a device may report as its color temperature.
MinKelvin == 1000

MaxKelvin == 40000

\* The lower mired limit without the offset of one.
min_mireds_NoOffset(max_temp) == color_temperature_kelvin_to_mired(max_temp)

\* self._attr_min_mireds and self._attr_max_mireds, from the device's range.
min_mireds(max_temp) == color_temperature_kelvin_to_mired(max_temp) + 1

max_mireds(min_temp) == color_temperature_kelvin_to_mired(min_temp)

\* The (min_temp, max_temp) ranges of the devices an entity is constructed for.
TempMarks ==
    { MinKelvin, 1500, 2000, 2600, MIN_TEMP, 3000, 4000, 5000, MAX_TEMP, 6535,
      10000, MaxKelvin }

TempRanges == { r \in TempMarks \X TempMarks : r[1] < r[2] }

\* A white device that is on and reports the color temperature `kelvin`.
CctDevice(kelvin) ==
    [ DeviceState(TRUE, FLUX_COLOR_MODE_CCT,
                  CHOOSE rep \in DeviceReports : rep.brightness = 204)
      EXCEPT !.color_temp = kelvin ]

Conversion(phase, lo, hi, kelvin) ==
    [ phase      |-> phase,
      min_temp   |-> lo,
      max_temp   |-> hi,
      min_mireds |-> min_mireds(hi),
      max_mireds |-> max_mireds(lo),
      kelvin     |-> kelvin,    \* the device's color temperature at the start
      mired      |-> 0,         \* the mired value read or requested
      sent       |-> 0,         \* the kelvin value sent to the device
      reread     |-> 0 ]        \* the mired value read after the device adopted it

\* The kelvin value a color-temperature intent for `mired` sends.
SentKelvin(d, mired) ==
    ColorTempRule(d, Kwargs({ATTR_COLOR_TEMP}, "", 0, mired)).cmds[1].args.kelvin[1]

\* Either an entity just constructed for one of the ranges, or an entity of
\* the default range whose device reports some color temperature.
ConversionInit ==
    /\ \/ \E r \in TempRanges :
            /\ conv = Conversion("constructed", r[1], r[2], r[1])
            /\ dev = CctDevice(r[1])
       \/ \E kelvin \in MinKelvin..MaxKelvin :
            /\ conv = Conversion("reported", MIN_TEMP, MAX_TEMP, kelvin)
            /\ dev = CctDevice(kelvin)
    /\ cfg \in { c \in Configs : c.custom_effect_colors = <<>> }
    /\ pc = "idle"
    /\ op = "none"
    /\ kw = NoKwargs
    /\ log = <<>>
    /\ result = "none"
    /\ startOn = TRUE
    /\ fault = ""
    /\ callArgs = NoneVal
    /\ calls = NoCalls

\* turn_on(color_temp=mired) with a mired value inside the advertised limits.
RequestColorTemp(mired) ==
    /\ conv.phase = "constructed"
    /\ mired \in conv.min_mireds..conv.max_mireds
    /\ conv' = [conv EXCEPT !.phase = "sent", !.mired = mired,
                            !.sent = SentKelvin(dev, mired)]
    /\ UNCHANGED <<dev, cfg, pc, op, kw, log, result, startOn, fault, callArgs, calls>>

\* The color_temp accessor is read.
ReadColorTemp ==
    /\ conv.phase = "reported"
    /\ conv' = [conv EXCEPT !.phase = "read", !.mired = color_temp(dev)]
    /\ UNCHANGED <<dev, cfg, pc, op, kw, log, result, startOn, fault, callArgs, calls>>

\* turn_on(color_temp=...) with the mired value the accessor returned.
EchoColorTemp ==
    /\ conv.phase = "read"
    /\ conv' = [conv EXCEPT !.phase = "echoed", !.sent = SentKelvin(dev, conv.mired)]
    /\ UNCHANGED <<dev, cfg, pc, op, kw, log, result, startOn, fault, callArgs, calls>>

\* A refresh: the device reports the kelvin value it was sent.
DeviceAdopts ==
    /\ conv.phase = "echoed"
    /\ dev' = [dev EXCEPT !.color_temp = conv.sent]
    /\ conv' = [conv EXCEPT !.phase = "adopted"]
    /\ UNCHANGED <<cfg, pc, op, kw, log, result, startOn, fault, callArgs, calls>>

\* The color_temp accessor is read again.
RereadColorTemp ==
    /\ conv.phase = "adopted"
    /\ conv' = [conv EXCEPT !.phase = "reread", !.reread = color_temp(dev)]
    /\ UNCHANGED <<dev, cfg, pc, op, kw, log, result, startOn, fault, callArgs, calls>>

ConversionNext ==
    \/ \E mired \in 1..(1000000 \div MinKelvin) : RequestColorTemp(mired)
    \/ ReadColorTemp
    \/ EchoColorTemp
    \/ DeviceAdopts
    \/ RereadColorTemp

ConversionSpec == ConversionInit /\ [][ConversionNext]_vars

(***************************************************************************)
(* Concurrent callers. Two callers (a service call and an automation, say) *)
(* run turn_on and set_custom_effect on the one entity; a call is          *)
(* suspended only while it awaits a native command, and there the other    *)
(* caller and the coordinator's refresh may run.                           *)
(***************************************************************************)
Callers == { "service", "automation" }

\* The cached device states the refresh moves between here.
ConcurrentDevices ==
    { DeviceState(on, mode, rep) :
        on \in BOOLEAN,
        mode \in { FLUX_COLOR_MODE_RGB, FLUX_COLOR_MODE_CCT },
        rep \in { r \in DeviceReports : r.brightness > 0 } }

\* The turn_on calls made here: a transition alone, a brightness, the
\* custom effect.
ConcurrentKwargs ==
    { Kwargs({ATTR_TRANSITION}, "", 0, 0),
      Kwargs({ATTR_BRIGHTNESS}, "", 128, 0),
      Kwargs({ATTR_EFFECT}, EFFECT_CUSTOM, 0, 0) }

\* One caller's call: `early` is the device state when a turn_on call
\* started (history), kept while the call lasts.
Call(pcv, opv, k, issued, res, early) ==
    [ pc |-> pcv, op |-> opv, kw |-> k, log |-> issued, result |-> res,
      early |-> early ]

IdleCall == Call("idle", "none", NoKwargs, <<>>, "none", NoneVal)

\* The brightness read before the turn-on is awaited, the rest after it.
DispatchView_BrightnessReadEarly(early, now) ==
    [now EXCEPT !.brightness = early.brightness]

\* The device state the dispatch of _async_turn_on works on: every read of
\* brightness, color mode and channel values comes after the awaited
\* turn-on and before the next await, so all see the state as it is now.
DispatchView(early, now) == now

\* The call after the code that ends in `out`, having issued `issued` before.
Proceeded(call, out, issued) ==
    [ call EXCEPT
        !.log = issued \o out.cmds,
        !.pc = IF out.cmds # <<>> THEN "await_cmd" ELSE "done",
        !.result = IF out.cmds # <<>> THEN "pending"
                   ELSE IF out.error # "" THEN out.error
                   ELSE "returned" ]

ConcurrentInit ==
    /\ dev \in ConcurrentDevices
    /\ cfg \in Configs
    /\ calls = [c \in Callers |-> IdleCall]
    /\ pc = "idle"
    /\ op = "none"
    /\ kw = NoKwargs
    /\ log = <<>>
    /\ result = "none"
    /\ startOn = TRUE
    /\ fault = ""
    /\ callArgs = NoneVal
    /\ conv = NoConversion

CallerTurnOn(c, k, rnd) ==
    /\ calls[c].pc = "idle"
    /\ calls' = [calls EXCEPT ![c] =
          IF NeedsTurnOn(dev)
          THEN Call("await_turn_on", "turn_on", k, <<async_turn_on>>, "pending",
                    Some(dev))
          ELSE Proceeded(Call("idle", "turn_on", k, <<>>, "pending", Some(dev)),
                         Dispatch(DispatchView(dev, dev), cfg, k, rnd), <<>>)]
    /\ UNCHANGED <<dev, cfg, pc, op, kw, log, result, startOn, fault, callArgs, conv>>

CallerTurnOnConfirmed(c, rnd) ==
    /\ calls[c].pc = "await_turn_on"
    /\ calls' = [calls EXCEPT ![c] =
          IF ReturnsAfterTurnOn(calls[c].kw)
          THEN Proceeded(calls[c], Nothing, calls[c].log)
          ELSE Proceeded(calls[c],
                         Dispatch(DispatchView(calls[c].early[1], dev), cfg,
                                  calls[c].kw, rnd),
                         calls[c].log)]
    /\ UNCHANGED <<dev, cfg, pc, op, kw, log, result, startOn, fault, callArgs, conv>>

CallerCommandConfirmed(c) ==
    /\ calls[c].pc = "await_cmd"
    /\ calls' = [calls EXCEPT ![c].pc = "done", ![c].result = "returned"]
    /\ UNCHANGED <<dev, cfg, pc, op, kw, log, result, startOn, fault, callArgs, conv>>

CallerCommandFailed(c, err) ==
    /\ calls[c].pc \in {"await_turn_on", "await_cmd"}
    /\ calls' = [calls EXCEPT ![c].pc = "done",
                              ![c].result = OnCommandError(err, calls[c].log).result,
                              ![c].log = OnCommandError(err, calls[c].log).log]
    /\ UNCHANGED <<dev, cfg, pc, op, kw, log, result, startOn, fault, callArgs, conv>>

CallerSetCustomEffect(c, colors, speed_pct, transition) ==
    /\ calls[c].pc = "idle"
    /\ calls' = [calls EXCEPT ![c] =
          Call("await_cmd", "set_custom_effect", NoKwargs,
               CustomEffectCommands(cfg, colors, speed_pct, transition),
               "pending", NoneVal)]
    /\ cfg' = StoredConfig(cfg, colors, speed_pct, transition)
    /\ UNCHANGED <<dev, pc, op, kw, log, result, startOn, fault, callArgs, conv>>

CallerReturn(c) ==
    /\ calls[c].pc = "done"
    /\ calls' = [calls EXCEPT ![c] = IdleCall]
    /\ UNCHANGED <<dev, cfg, pc, op, kw, log, result, startOn, fault, callArgs, conv>>

\* The refresh runs whenever no caller's code runs: between any two steps.
ConcurrentRefresh(d) ==
    /\ d # dev
    /\ dev' = d
    /\ UNCHANGED <<cfg, calls, pc, op, kw, log, result, startOn, fault, callArgs, conv>>

ConcurrentNext ==
    \/ \E c \in Callers, k \in ConcurrentKwargs : CallerTurnOn(c, k, <<0, 0, 0>>)
    \/ \E c \in Callers : CallerTurnOnConfirmed(c, <<0, 0, 0>>)
    \/ \E c \in Callers : CallerCommandConfirmed(c)
    \/ \E c \in Callers : CallerCommandFailed(c, "ConnectionError")
    \/ \E c \in Callers, colors \in ColorLists :
          CallerSetCustomEffect(c, colors, 100, TRANSITION_STROBE)
    \/ \E c \in Callers : CallerReturn(c)
    \/ \E d \in ConcurrentDevices : ConcurrentRefresh(d)

ConcurrentSpec == ConcurrentInit /\ [][ConcurrentNext]_vars

(***************************************************************************)
(* Vocabulary of the properties.                                           *)
(***************************************************************************)
ColorAttrs ==
    { ATTR_COLOR_TEMP, ATTR_RGB_COLOR, ATTR_RGBW_COLOR, ATTR_RGBWW_COLOR }

\* The commands of the call other than the native turn-on.
DispatchCommands == SelectSeq(log, LAMBDA c : c.name # "turn_on")

TurnOnCommands == SelectSeq(log, LAMBDA c : c.name = "turn_on")

\* This step runs the dispatch of a turn_on call: at the call itself when the
\* device is reported on, or when the awaited turn-on has returned and the
\* call carries attributes.
Dispatching ==
    \/ pc = "idle" /\ op' = "turn_on" /\ dev.is_on
    \/ pc = "await_turn_on" /\ pc' # "await_turn_on" /\ fault' = "" /\ kw.keys # {}

\* The kwargs of the call that step belongs to.
DispatchedKwargs == IF pc = "idle" THEN kw' ELSE kw

\* What that step issued, and the error it raised ("" for none).
IssuedNow == SubSeq(log', Len(log) + 1, Len(log'))

RaisedNow == IF result' \in {"pending", "returned"} THEN "" ELSE result'

\* An effect intent naming an effect that is neither in the table nor
\* RANDOM nor CUSTOM, with no color attribute.
UnknownEffectIntent ==
    /\ op = "turn_on"
    /\ ATTR_EFFECT \in kw.keys
    /\ kw.keys \cap ColorAttrs = {}
    /\ kw.effect \notin {EFFECT_MAP_ITEMS[i][1] : i \in 1..Len(EFFECT_MAP_ITEMS)}
    /\ kw.effect \notin {EFFECT_RANDOM, EFFECT_CUSTOM}

\* A CUSTOM effect intent, with no color attribute, and no custom colors configured.
EmptyCustomIntent ==
    /\ op = "turn_on"
    /\ ATTR_EFFECT \in kw.keys
    /\ kw.keys \cap ColorAttrs = {}
    /\ kw.effect = EFFECT_CUSTOM
    /\ cfg.custom_effect_colors = <<>>

\* How a call ends when its dispatch issues nothing and ends in `outcome`:
\* only the turn-on of a device reported off is issued, and its transport
\* error, if it fails, is what the caller gets.
OnlyTurnOnThen(outcome) ==
    /\ log = IF startOn THEN <<>> ELSE <<async_turn_on>>
    /\ pc = "done" => result = IF fault # "" THEN fault ELSE outcome

(***************************************************************************)
(* C1 as stated: a turn_on whose effect is unknown (no color attribute)    *)
(* ends with the input-validation error and issues no native command at    *)
(* all, the device being reported on or off.                               *)
(***************************************************************************)
C1_UnknownEffectZeroCommands ==
    UnknownEffectIntent =>
        /\ log = <<>>
        /\ pc = "done" => result = UnknownEffectError

\* C1 amended: a turn_on whose effect is unknown (no color attribute) issues
\* no dispatch command; on a device reported on it issues nothing and ends
\* with the input-validation error; on a device reported off it issues
\* exactly the native turn-on and then ends with the input-validation error,
\* or with the transport error of that turn-on if it fails.
C1_UnknownEffectNoDispatch ==
    UnknownEffectIntent => OnlyTurnOnThen(UnknownEffectError)

C1_Witness ==
    /\ UnknownEffectIntent
    /\ pc = "done"
    /\ ~startOn
    /\ result = UnknownEffectError
    /\ log = <<async_turn_on>>

(***************************************************************************)
(* C2 as stated: a CUSTOM effect intent with an empty configured color     *)
(* list returns without error and issues no native command at all, the     *)
(* device being reported on or off.                                        *)
(***************************************************************************)
C2_EmptyCustomZeroCommands ==
    EmptyCustomIntent =>
        /\ log = <<>>
        /\ pc = "done" => result = "returned"

\* C2 amended: a CUSTOM effect intent with an empty configured color list
\* issues no dispatch command; on a device reported on it issues nothing and
\* returns without error; on a device reported off it issues exactly the
\* native turn-on and then returns without error, unless that turn-on fails
\* with a transport error, which is then what the caller gets.
C2_EmptyCustomNoDispatch ==
    EmptyCustomIntent => OnlyTurnOnThen("returned")

C2_Witness ==
    /\ EmptyCustomIntent
    /\ pc = "done"
    /\ ~startOn
    /\ result = "returned"
    /\ log = <<async_turn_on>>

(***************************************************************************)
(* C3 as stated: a turn_on call issues at most one native command.         *)
(***************************************************************************)
C3_AtMostOneCommand ==
    op = "turn_on" => Len(log) <= 1

\* C3 amended: a turn_on call issues at most two native commands: at most
\* one turn-on, only for a device reported off and before anything else,
\* and at most one dispatch command; no command is issued twice.
C3_AtMostTurnOnAndOneDispatch ==
    op = "turn_on" =>
        /\ Len(log) <= 2
        /\ Len(DispatchCommands) <= 1
        /\ Len(TurnOnCommands) <= 1
        /\ TurnOnCommands # <<>> => (~startOn /\ log[1] = async_turn_on)
        /\ \A i, j \in 1..Len(log) : i # j => log[i] # log[j]

C3_Witness ==
    /\ op = "turn_on"
    /\ pc = "done"
    /\ result = "returned"
    /\ Len(log) = 2
    /\ log[1] = async_turn_on
    /\ log[2].name = "set_levels"

(***************************************************************************)
(* C4: turn_on with no attribute at all on a device reported off issues    *)
(* exactly the native turn-on and nothing after it, whatever the color     *)
(* mode.                                                                   *)
(***************************************************************************)
C4_TurnOnAloneIssuesOnlyTurnOn ==
    (op = "turn_on" /\ kw.keys = {} /\ ~startOn) => log = <<async_turn_on>>

C4_Witness ==
    /\ op = "turn_on"
    /\ kw.keys = {}
    /\ ~startOn
    /\ pc = "done"
    /\ result = "returned"
    /\ dev.color_mode = FLUX_COLOR_MODE_RGBWW
    /\ log = <<async_turn_on>>

(***************************************************************************)
(* C5: on a device reported on, turn_on carrying only brightness=b issues  *)
(* no native turn-on and exactly one command, chosen by the current mode:  *)
(* CCT: set_white_temp(current kelvin, b); RGB: set_levels(current rgb     *)
(* color, brightness=b); RGBW: set_levels of rgbw_brightness(current rgbw,  *)
(* b); RGBWW: set_levels of rgbww_brightness(current native-order rgbwc,   *)
(* b); DIM: set_levels(w=b).                                               *)
(***************************************************************************)
C5_Expected(d, b) ==
    LET l == d.levels
        hs == color_hs_roundtrip(<<l[1], l[2], l[3]>>)
        w4 == rgbw_brightness(<<l[1], l[2], l[3], l[4]>>, b)
        w5 == rgbww_brightness(<<l[1], l[2], l[3], l[4], l[5]>>, b)
    IN  CASE d.color_mode = FLUX_COLOR_MODE_CCT ->
               Command("set_white_temp",
                       [NoArgs EXCEPT !.kelvin = <<d.color_temp>>,
                                      !.brightness = <<b>>])
          [] d.color_mode = FLUX_COLOR_MODE_RGB ->
               Command("set_levels",
                       [NoArgs EXCEPT !.r = <<hs[1]>>, !.g = <<hs[2]>>,
                                      !.b = <<hs[3]>>, !.brightness = <<b>>])
          [] d.color_mode = FLUX_COLOR_MODE_RGBW ->
               Command("set_levels",
                       [NoArgs EXCEPT !.r = <<w4[1]>>, !.g = <<w4[2]>>,
                                      !.b = <<w4[3]>>, !.w = <<w4[4]>>])
          [] d.color_mode = FLUX_COLOR_MODE_RGBWW ->
               Command("set_levels",
                       [NoArgs EXCEPT !.r = <<w5[1]>>, !.g = <<w5[2]>>,
                                      !.b = <<w5[3]>>, !.w = <<w5[4]>>,
                                      !.w2 = <<w5[5]>>])
          [] d.color_mode = FLUX_COLOR_MODE_DIM ->
               Command("set_levels", [NoArgs EXCEPT !.w = <<b>>])

\* C5: the call step of a brightness-only turn_on on a device reported on
\* issues exactly the one command its color mode selects, and no turn-on.
C5_BrightnessOnlyOnDeviceOn ==
    [][ ( /\ pc = "idle"
          /\ op' = "turn_on"
          /\ dev.is_on
          /\ kw'.keys = {ATTR_BRIGHTNESS}
          /\ dev.color_mode \in { FLUX_COLOR_MODE_CCT, FLUX_COLOR_MODE_RGB,
                                  FLUX_COLOR_MODE_RGBW, FLUX_COLOR_MODE_RGBWW,
                                  FLUX_COLOR_MODE_DIM } )
        => ( /\ log' = <<C5_Expected(dev, kw'.brightness)>>
             /\ pc' = "await_cmd" ) ]_vars

C5_Witness ==
    /\ op = "turn_on"
    /\ startOn
    /\ kw.keys = {ATTR_BRIGHTNESS}
    /\ pc = "done"
    /\ result = "returned"
    /\ Len(log) = 1
    /\ log[1].name = "set_levels"
    /\ log[1].args.w2 # NoneVal
    /\ log[1].args.w # log[1].args.w2

(***************************************************************************)
(* C6: the dispatch of turn_on is decided by the highest-priority          *)
(* attribute present, in the order color_temp > rgb > rgbw > rgbww >       *)
(* effect > brightness-only: the command issued and the error raised are   *)
(* those of the call that carries that attribute alone (with the           *)
(* brightness, which parameterises every rule, if present); a lower-       *)
(* priority attribute adds no command and no error.                        *)
(***************************************************************************)
C6_Priority ==
    << ATTR_COLOR_TEMP, ATTR_RGB_COLOR, ATTR_RGBW_COLOR, ATTR_RGBWW_COLOR,
       ATTR_EFFECT >>

C6_Rank(k) ==
    IF \E i \in 1..Len(C6_Priority) : C6_Priority[i] \in k.keys
    THEN CHOOSE i \in 1..Len(C6_Priority) :
            /\ C6_Priority[i] \in k.keys
            /\ \A j \in 1..(i - 1) : C6_Priority[j] \notin k.keys
    ELSE Len(C6_Priority) + 1

\* The call that carries only the highest-priority attribute of k (and its brightness).
C6_Reduced(k) ==
    LET keep == IF C6_Rank(k) <= Len(C6_Priority)
                THEN {C6_Priority[C6_Rank(k)], ATTR_BRIGHTNESS}
                ELSE {ATTR_BRIGHTNESS}
    IN  Kwargs(k.keys \cap keep, k.effect, k.brightness, k.color_temp)

\* The rule chosen by rank alone.
C6_RuleOutcome(rank, d, c, k, rnd) ==
    CASE rank = 1 -> ColorTempRule(d, k)
      [] rank = 2 -> RgbRule(d, k)
      [] rank = 3 -> RgbwRule(d, k)
      [] rank = 4 -> RgbwwRule(d, k)
      [] rank = 5 -> EffectRule(c, k, rnd)
      [] OTHER    -> BrightnessRule(d, k)

\* C6: every dispatch issues the command, and raises the error, of the rule
\* of its highest-priority attribute alone; it issues at most one command.
C6_DispatchByPriority ==
    [][ Dispatching =>
          \E rnd \in RandomColors :
              LET out == C6_RuleOutcome(C6_Rank(DispatchedKwargs), dev, cfg,
                                        C6_Reduced(DispatchedKwargs), rnd)
              IN  /\ IssuedNow = out.cmds
                  /\ RaisedNow = out.error
                  /\ Len(IssuedNow) <= 1 ]_vars

C6_Witness ==
    /\ op = "turn_on"
    /\ {ATTR_COLOR_TEMP, ATTR_RGB_COLOR, ATTR_EFFECT} \subseteq kw.keys
    /\ kw.effect = "nonexistent_effect"
    /\ pc = "done"
    /\ result = "returned"
    /\ DispatchCommands # <<>>
    /\ DispatchCommands[1].args.kelvin # NoneVal

(***************************************************************************)
(* C7: a color-temperature intent issues exactly one dispatch command. In  *)
(* RGBWW mode it is set_levels with r = g = b = 0, w = warm and w2 = cold, *)
(* where (cold, warm) = color_temp_to_white_levels(kelvin, B) and B is the *)
(* supplied brightness or else the device's white-pair brightness (not its *)
(* overall brightness); in every other mode it is set_white_temp(kelvin,   *)
(* brightness), the brightness being the supplied one or else the device's *)
(* overall brightness, and no set_levels is issued.                        *)
(***************************************************************************)
C7_Expected(d, k) ==
    LET kelvin   == color_temperature_mired_to_kelvin(k.color_temp)
        supplied == ATTR_BRIGHTNESS \in k.keys
        white    == color_temp_to_white_levels(
                        kelvin, IF supplied THEN k.brightness
                                ELSE d.white_brightness)
    IN  IF d.color_mode = FLUX_COLOR_MODE_RGBWW
        THEN Command("set_levels",
                     [NoArgs EXCEPT !.r = <<0>>, !.g = <<0>>, !.b = <<0>>,
                                    !.w = <<white[2]>>, !.w2 = <<white[1]>>])
        ELSE Command("set_white_temp",
                     [NoArgs EXCEPT !.kelvin = <<kelvin>>,
                                    !.brightness = <<IF supplied THEN k.brightness
                                                     ELSE d.brightness>>])

C8_ReachesBrightnessRuleInOnOff ==
    /\ Dispatching
    /\ DispatchedKwargs.keys \cap (ColorAttrs \cup {ATTR_EFFECT}) = {}
    /\ dev.color_mode \notin { FLUX_COLOR_MODE_CCT, FLUX_COLOR_MODE_RGB,
                               FLUX_COLOR_MODE_RGBW, FLUX_COLOR_MODE_RGBWW,
                               FLUX_COLOR_MODE_DIM }

\* C8 as stated: invalid-state error and an empty command log, whether the
\* device was reported on or off.
C8_UnsupportedModeZeroCommands ==
    [][ C8_ReachesBrightnessRuleInOnOff =>
          ( /\ pc' = "done"
            /\ result' = UnsupportedModeError
            /\ log' = <<>> ) ]_vars

\* C8 amended: in that case the call ends with the invalid-state error and
\* the dispatch issues no native command: the call has issued nothing when
\* the device was reported on at its start, and exactly the native turn-on
\* (before the dispatch) when it was reported off.
C8_UnsupportedModeNoDispatch ==
    [][ C8_ReachesBrightnessRuleInOnOff =>
          ( /\ pc' = "done"
            /\ result' = UnsupportedModeError
            /\ log' = IF startOn' THEN <<>> ELSE <<async_turn_on>> ) ]_vars

C8_Witness ==
    /\ op = "turn_on"
    /\ kw.keys = {ATTR_BRIGHTNESS}
    /\ pc = "done"
    /\ result = UnsupportedModeError
    /\ ~startOn
    /\ dev.color_mode = "ADDRESSABLE"
    /\ log = <<async_turn_on>>

(***************************************************************************)
(* C9: when a native command issued by turn_on or set_custom_effect fails  *)
(* with a transport error, the call ends with that same error, the failed  *)
(* command is not issued again and no further command is issued in the     *)
(* call (a failed turn-on is never followed by a dispatch command).        *)
(***************************************************************************)
C9_TransportErrorPropagates ==
    [][ /\ (fault' # "" /\ fault = "") =>
              ( /\ pc' = "done"
                /\ result' = fault'
                /\ log' = log )
        /\ (fault # "") =>
              ( /\ pc = "done"
                /\ result = fault
                /\ fault' = "" /\ pc' = "idle" ) ]_vars

C9_Witness ==
    /\ op = "turn_on"
    /\ pc = "done"
    /\ fault \in TransportErrors
    /\ result = fault
    /\ ~startOn
    /\ ATTR_RGB_COLOR \in kw.keys
    /\ log = <<async_turn_on>>

(***************************************************************************)
(* C10: the preset table is a bijection between its 20 effect names and    *)
(* the codes 0x25..0x38: the name of a code maps back to the code, the     *)
(* code of a name maps back to the name, and the custom-pattern code 0x60  *)
(* is not a value of the table.                                            *)
(***************************************************************************)
C10_PresetTableBijection ==
    LET names == DOMAIN EFFECT_MAP
        codes == {EFFECT_MAP[n] : n \in names}
    IN  /\ Cardinality(names) = 20
        /\ codes = 37..56
        /\ DOMAIN EFFECT_ID_NAME = codes
        /\ \A c \in 37..56 : EFFECT_MAP[EFFECT_ID_NAME[c]] = c
        /\ \A n \in names : EFFECT_ID_NAME[EFFECT_MAP[n]] = n
        /\ EFFECT_CUSTOM_CODE = 96
        /\ EFFECT_CUSTOM_CODE \notin codes
        /\ \A i \in 1..Len(log) :
              log[i].name = "set_preset_pattern" =>
                  /\ log[i].args.pattern[1] \in 37..56
                  /\ EFFECT_ID_NAME[log[i].args.pattern[1]] = kw.effect

C10_Witness ==
    /\ op = "turn_on"
    /\ kw.effect = "colorjump"
    /\ pc = "done"
    /\ result = "returned"
    /\ Len(log) = 1
    /\ log[1] = async_set_preset_pattern(56, DEFAULT_EFFECT_SPEED)
    /\ effect(dev) = <<EFFECT_COLORLOOP>>

(***************************************************************************)
(* C11. The kelvin/mired round trip.                                       *)
(***************************************************************************)
Dist(a, b) == IF a >= b THEN a - b ELSE b - a

\* C11 as stated: for every kelvin value k in [1000, 40000],
\* mired_to_kelvin(kelvin_to_mired(k)) differs from k by at most 1.
C11_KelvinRoundTripWithinOne ==
    conv.phase \in {"echoed", "adopted", "reread"}
        => Dist(conv.sent, conv.kelvin) <= 1

\* C11 amended: for every kelvin value k in [1000, 40000] the round trip is
\* exact to within 1 mired, not 1 kelvin: the kelvin value sent back for the
\* mired value of k, converted to mired again, differs from the mired value
\* of k by at most 1.
C11_MiredRoundTripWithinOne ==
    conv.phase = "reread" => Dist(conv.reread, conv.mired) <= 1

\* A round trip that is more than 1 kelvin off and exactly 1 mired off.
C11_Witness ==
    /\ conv.phase = "reread"
    /\ conv.kelvin = 3000
    /\ conv.sent = 3003
    /\ conv.reread = conv.mired
    /\ conv.mired = 333

(***************************************************************************)
(* C12. set_custom_effect(colors, speed_pct, transition) issues exactly    *)
(* one set_custom_pattern command carrying exactly the supplied arguments, *)
(* whatever custom-effect configuration is stored and whether the device   *)
(* is reported on or off; it issues no turn_on and no other command.       *)
(***************************************************************************)
C12_CustomEffectPassThrough ==
    op = "set_custom_effect"
        => /\ callArgs # NoneVal
           /\ log = << Command("set_custom_pattern",
                               [NoArgs EXCEPT
                                   !.colors = <<callArgs[1].colors>>,
                                   !.speed = <<callArgs[1].speed_pct>>,
                                   !.transition = <<callArgs[1].transition>>]) >>

\* A call on a device reported off, with an empty stored color list, has
\* returned after sending its own colors, speed and transition.
C12_Witness ==
    /\ op = "set_custom_effect"
    /\ result = "returned"
    /\ ~startOn
    /\ cfg.custom_effect_colors = <<>>
    /\ callArgs[1].colors # <<>>
    /\ callArgs[1].speed_pct # cfg.custom_effect_speed_pct
    /\ callArgs[1].transition # cfg.custom_effect_transition
    /\ Len(log) = 1

(***************************************************************************)
(* C13. In every turn_on call the native turn_on command is issued if and  *)
(* only if the device was reported off when the call started; it is then   *)
(* issued exactly once, as the first command of the call, and it has       *)
(* completed before any levels, white-temperature, preset or custom-pattern*)
(* command of the same call is issued.                                     *)
(***************************************************************************)
C13_TurnOnIffOffAndFirst ==
    op = "turn_on"
        => /\ (TurnOnCommands # <<>>) <=> ~startOn
           /\ Len(TurnOnCommands) <= 1
           /\ TurnOnCommands # <<>> => log[1] = async_turn_on
           /\ pc = "await_turn_on" => log = <<async_turn_on>>

\* A step that issues a dispatch command issues no turn_on, and in a call
\* that has issued one it is the step in which the awaited turn_on returns
\* without an error.
C13_DispatchAfterTurnOnReturned ==
    Len(DispatchCommands') > Len(DispatchCommands)
        => /\ TurnOnCommands' = TurnOnCommands
           /\ TurnOnCommands # <<>> => pc = "await_turn_on" /\ fault' = ""

C13_TurnOnPrecedesDispatch ==
    [](C13_TurnOnIffOffAndFirst) /\ [][C13_DispatchAfterTurnOnReturned]_vars

\* A call on a device reported off has returned after the turn_on and one
\* dispatch command, in that order.
C13_Witness ==
    /\ op = "turn_on"
    /\ ~startOn
    /\ result = "returned"
    /\ Len(log) = 2
    /\ log[1] = async_turn_on
    /\ log[2].name = "set_levels"

(***************************************************************************)
(* C14. The effect accessor reports CUSTOM when the device's reported      *)
(* preset code is 0x60, the table name of the code when the code is in     *)
(* 0x25..0x38, and no effect for every other code. So when a turn_on with  *)
(* a table name n has issued set_preset_pattern(EFFECT_MAP[n], default     *)
(* speed) and the device reports that code, the accessor returns n; and    *)
(* the accessor never reports RANDOM, after a RANDOM intent or otherwise.  *)
(***************************************************************************)
\* What the claim says the accessor reports for a preset code.
C14_Expected(code) ==
    IF code = 96 THEN <<EFFECT_CUSTOM>>
    ELSE IF code \in 37..56
    THEN LET i == CHOOSE j \in 1..Len(EFFECT_MAP_ITEMS) : EFFECT_MAP_ITEMS[j][2] = code
         IN  <<EFFECT_MAP_ITEMS[i][1]>>
    ELSE <<>>

C14_EffectAccessor ==
    /\ effect(dev) = C14_Expected(dev.preset_pattern_num)
    /\ effect(dev) # <<EFFECT_RANDOM>>
    \* every code a device can report, on the states between calls
    /\ pc = "idle" =>
          \A code \in 0..255 :
              LET d == [dev EXCEPT !.preset_pattern_num = code]
              IN  effect(d) = C14_Expected(code) /\ effect(d) # <<EFFECT_RANDOM>>
    /\ \A i \in 1..Len(log) :
          log[i].name = "set_preset_pattern" =>
              /\ op = "turn_on"
              /\ log[i] = async_set_preset_pattern(EFFECT_MAP[kw.effect],
                                                   DEFAULT_EFFECT_SPEED)
              /\ \A code \in {dev.preset_pattern_num} \cup 37..56 :
                    log[i].args.pattern = <<code>>
                        => effect([dev EXCEPT !.preset_pattern_num = code])
                               = <<kw.effect>>

\* turn_on(effect=colorloop) has issued the preset command for 0x25 and the
\* device reports that code: the accessor returns colorloop.
C14_Witness ==
    /\ op = "turn_on"
    /\ kw.effect = EFFECT_COLORLOOP
    /\ result = "returned"
    /\ log = <<async_set_preset_pattern(37, DEFAULT_EFFECT_SPEED)>>
    /\ dev.preset_pattern_num = 37
    /\ effect(dev) = <<EFFECT_COLORLOOP>>

(***************************************************************************)
(* C15. For an RGBW intent the levels command carries                      *)
(* rgbw_brightness(rgbw, b) if and only if a brightness b was supplied,    *)
(* and otherwise the supplied rgbw vector unchanged (the device's current  *)
(* brightness is not applied). For an RGBWW intent the same holds with     *)
(* rgbcw_brightness, and the vector sent is the supplied or scaled         *)
(* (r, g, b, cold, warm) vector with its last two components swapped into  *)
(* the native (r, g, b, warm, cold) order.                                 *)
(***************************************************************************)
\* The levels command for an (r, g, b, w) or native (r, g, b, warm, cold) vector.
C15_Levels(v) ==
    Command("set_levels",
            [NoArgs EXCEPT !.r = <<v[1]>>, !.g = <<v[2]>>, !.b = <<v[3]>>,
                           !.w = <<v[4]>>,
                           !.w2 = IF Len(v) = 5 THEN <<v[5]>> ELSE <<>>])

C15_Expected(k) ==
    IF C6_Rank(k) = 3
    THEN C15_Levels(IF ATTR_BRIGHTNESS \in k.keys
                    THEN rgbw_brightness(k.rgbw_color, k.brightness)
                    ELSE k.rgbw_color)
    ELSE LET rgbcw == IF ATTR_BRIGHTNESS \in k.keys
                      THEN rgbcw_brightness(k.rgbww_color, k.brightness)
                      ELSE k.rgbww_color
         IN  C15_Levels(<<rgbcw[1], rgbcw[2], rgbcw[3], rgbcw[5], rgbcw[4]>>)

C15_RgbwAndRgbwwIntents ==
    (op = "turn_on" /\ C6_Rank(kw) \in {3, 4})
        => /\ DispatchCommands \in {<<>>, <<C15_Expected(kw)>>}
           /\ pc = "await_cmd" => DispatchCommands = <<C15_Expected(kw)>>
           /\ (result = "returned" /\ startOn) => log = <<C15_Expected(kw)>>

\* An RGBWW intent with a supplied brightness has sent the scaled vector in
\* native order, on a device whose own brightness is another.
C15_Witness ==
    /\ op = "turn_on"
    /\ C6_Rank(kw) = 4
    /\ ATTR_BRIGHTNESS \in kw.keys
    /\ kw.brightness = 128
    /\ dev.brightness = 204
    /\ result = "returned"
    /\ DispatchCommands = <<C15_Expected(kw)>>
    /\ rgbcw_brightness(kw.rgbww_color, 128) # kw.rgbww_color
    /\ DispatchCommands[1].args.w = <<rgbcw_brightness(kw.rgbww_color, 128)[5]>>
    /\ DispatchCommands[1].args.w # DispatchCommands[1].args.w2

C19_NoAttributeCallOnDeviceOn ==
    [][ ( /\ pc = "idle"
          /\ op' = "turn_on"
          /\ dev.is_on
          /\ kw'.keys \cap DispatchAttrs = {} )
        => IF color_mode(dev) = COLOR_MODE_ONOFF
           THEN /\ log' = <<>>
                /\ pc' = "done"
                /\ result' = UnsupportedModeError
           ELSE /\ log' = <<C5_Expected(dev, dev.brightness)>>
                /\ pc' = "await_cmd"
                /\ result' = "pending" ]_vars

\* A call carrying only a transition, on an RGB device reported on at
\* brightness 204, has returned after the one set_levels command at 204.
C19_Witness ==
    /\ op = "turn_on"
    /\ startOn
    /\ kw.keys = {ATTR_TRANSITION}
    /\ result = "returned"
    /\ Len(log) = 1
    /\ log[1].name = "set_levels"
    /\ log[1].args.brightness = <<204>>
    /\ log[1].args.w = NoneVal

(***************************************************************************)
(* C16. After any sequence and any interleaving of turn_on and             *)
(* set_custom_effect calls, successful or failing, the stored custom-effect*)
(* configuration (color list, speed percentage, transition style) equals   *)
(* the values supplied at construction: no step of any call writes it.     *)
(***************************************************************************)
C16_StoredConfigNeverWritten == [][cfg' = cfg]_vars

\* Both callers have a call behind them at once: a set_custom_effect that
\* returned after sending colors other than the stored ones, and a turn_on
\* with the custom effect that failed in its command.
C16_Witness ==
    /\ calls["service"].op = "set_custom_effect"
    /\ calls["service"].result = "returned"
    /\ calls["service"].log[1].args.colors # <<cfg.custom_effect_colors>>
    /\ calls["service"].log[1].args.speed # <<cfg.custom_effect_speed_pct>>
    /\ calls["automation"].op = "turn_on"
    /\ calls["automation"].kw.effect = EFFECT_CUSTOM
    /\ calls["automation"].result = "ConnectionError"
    /\ Len(calls["automation"].log) = 2

(***************************************************************************)
(* C18. When a refresh may interleave with a turn_on call at its           *)
(* suspension points, the color mode, brightness and color/white values    *)
(* that select and parameterise the dispatch command are all read from one *)
(* device snapshot, the one current when the command is issued: the        *)
(* command never combines values of two refreshes.                         *)
(***************************************************************************)
\* The dispatch commands caller c issues in this step.
C18_IssuedBy(c) ==
    SelectSeq(SubSeq(calls'[c].log, Len(calls[c].log) + 1, Len(calls'[c].log)),
              LAMBDA cmd : cmd.name # "turn_on")

C18_DispatchReadsOneSnapshot ==
    [][ \A c \in Callers :
          (calls'[c].op = "turn_on" /\ C18_IssuedBy(c) # <<>>)
              => /\ C18_IssuedBy(c) =
                        Dispatch(dev, cfg, calls'[c].kw, <<0, 0, 0>>).cmds
                 /\ dev' = dev ]_vars

\* A call that started on an RGB device reported off at brightness 204 and
\* was refreshed while it awaited the turn-on has sent the command of the
\* later snapshot alone: white temperature 4000 K at brightness 51.
C18_Witness ==
    \E c \in Callers :
        /\ calls[c].op = "turn_on"
        /\ calls[c].kw.keys = {ATTR_TRANSITION}
        /\ calls[c].early[1].color_mode = FLUX_COLOR_MODE_RGB
        /\ calls[c].early[1].brightness = 204
        /\ calls[c].log = <<async_turn_on, async_set_white_temp(4000, 51)>>
        /\ calls[c].result = "returned"

====
